---- MODULE Spec2Model ----
(***************************************************************************)
(* A model of sql.py: the start-up sequence (database connection, API key, *)
(* model client, graph), the retry loop of write_query, the three-stage    *)
(* pipeline write_query -> execute_query -> generate_answer run by         *)
(* graph.stream, the terminal loop, and the module-level write_query call  *)
(* that follows the loop.                                                  *)
(*                                                                         *)
(* Texts are sequences of one-character strings (or of opaque tokens where *)
(* the program never looks inside them), so that upper(), lower(), strip() *)
(* and the substring test are computed and not assumed.  A dict is a set   *)
(* of <<key, value>> pairs.                                                *)
(***************************************************************************)
EXTENDS Integers, Sequences, FiniteSets, TLC

VARIABLES
    pc,             \* position of the (single-threaded) program
    runAsMain,      \* __name__ == "__main__"
    connected,      \* db was created
    dbErrorPrinted, \* "Database connection error: ..." was printed
    keyPrompted,    \* getpass prompt was shown
    llmCreated,     \* init_chat_model was called
    graphBuilt,     \* the graph was compiled
    exitCode,       \* -1 while running, else the process exit status
    farewell,       \* "Goodbye!" was printed
    nAsked,         \* number of questions read so far
    userPrompts,    \* number of input() prompts shown so far
    state,          \* the record threaded through graph.stream
    test_state,     \* the module-level test_state dict
    caller,         \* who called write_query: "graph" or "test"
    attempt,        \* write_query: attempt
    sql_query,      \* write_query: sql_query
    sent,           \* write_query: the "input" of each prompt of this call
    outputs,        \* write_query: what each attempt of this call got back
    wqlog,          \* write_query: the lines printed by the loop of this call
    loopEnd,        \* write_query: how the while loop ended
    returned,       \* write_query: the update returned by this call
    calls,          \* stages invoked for the current question, in order
    seen,           \* the record each invoked stage was given
    reads,          \* the keys the stage invoked last read from its record
    execFailed,     \* execute_query: the try block raised
    gaPrompt,       \* generate_answer: the prompt sent to the model
    contAsked,      \* the continue-prompt was shown for the current question
    lastResponse,   \* the raw text typed at the continue-prompt
    raised          \* the exception that ended the process, or "none"

vars == <<pc, runAsMain, connected, dbErrorPrinted, keyPrompted, llmCreated,
          graphBuilt, exitCode, farewell, nAsked, userPrompts, state,
          test_state, caller, attempt, sql_query, sent, outputs, wqlog,
          loopEnd, returned, calls, seen, reads, execFailed, gaPrompt,
          contAsked, lastResponse, raised>>

\* ---------------------------------------------------------------- bounds

MaxQuestions == 2

\* ---------------------------------------------------------------- texts

LowerLetters == <<"c", "e", "l", "s", "t", "y">>
UpperLetters == <<"C", "E", "L", "S", "T", "Y">>
Whitespace == {" ", "\t", "\n"}

IndexIn(c, letters) == CHOOSE i \in 1..Len(letters) : letters[i] = c

UpperChar(c) ==
    IF \E i \in 1..Len(LowerLetters) : LowerLetters[i] = c
    THEN UpperLetters[IndexIn(c, LowerLetters)]
    ELSE c

LowerChar(c) ==
    IF \E i \in 1..Len(UpperLetters) : UpperLetters[i] = c
    THEN LowerLetters[IndexIn(c, UpperLetters)]
    ELSE c

Upper(t) == [i \in 1..Len(t) |-> UpperChar(t[i])]

Lower(t) == [i \in 1..Len(t) |-> LowerChar(t[i])]

RECURSIVE LStrip(_)
LStrip(t) ==
    IF t # <<>> /\ Head(t) \in Whitespace THEN LStrip(Tail(t)) ELSE t

RECURSIVE RStrip(_)
RStrip(t) ==
    IF t # <<>> /\ t[Len(t)] \in Whitespace
    THEN RStrip(SubSeq(t, 1, Len(t) - 1))
    ELSE t

Strip(t) == RStrip(LStrip(t))

\* sub in t
Contains(t, sub) ==
    \E i \in 1..(Len(t) - Len(sub) + 1) : SubSeq(t, i, i + Len(sub) - 1) = sub

SELECT == <<"S", "E", "L", "E", "C", "T">>
Yes == <<"y", "e", "s">>

\* ---------------------------------------------------------------- dicts

Keys(d) == {p[1] : p \in d}

Get(d, k) == (CHOOSE p \in d : p[1] = k)[2]

\* the update is lost
MergeDropsUpdate(d, u) == d

\* the update replaces the record
MergeReplaces(d, u) == u

\* the runner's merge of a stage's partial update into the record
Merge(d, u) == {p \in d : p[1] \notin Keys(u)} \cup u

\* ---------------------------------------------------------------- inputs

Fields == {"question", "query", "result", "answer"}

\* questions the user may type
Questions == {<<"How many songs are there?">>, <<"Show top 5 songs of Coldplay">>}

TestQuestion == <<"How many songs does Coldplay have?">>

\* result["query"] values the structured model call may give back
ModelQueries ==
    { SELECT,
      <<"s", "e", "l", "e", "c", "t">>,
      <<"x", "S", "e", "l", "e", "c", "t">>,
      <<"S", "E", "L", "E", "C">>,
      <<"S", "E", "L", "E", "C", " ", "T">>,
      <<>> }

\* one attempt either raises inside the try block or yields a query text
AttemptOutcomes == {<<"error", <<>>>>} \cup {<<"output", q>> : q \in ModelQueries}

\* the tool either returns result text or raises with a message
ToolOutcomes ==
    { <<"ok", <<"[(42,)]">>>>, <<"ok", <<>>>>, <<"raise", <<"(1064) syntax error">>>> }

\* llm.invoke(prompt) either raises or returns response.content
AnswerOutcomes == { <<"error", <<>>>>, <<"ok", <<"There are 42 songs.">>>> }

\* texts the user may type at the continue-prompt
Responses ==
    { Yes,
      <<"Y", "E", "S">>,
      <<" ", "Y", "e", "s", "\n">>,
      <<"n", "o">>,
      <<>>,
      <<" ">>,
      <<"y", " ", "e", "s">>,
      <<"y", "e", "s", "s">>,
      <<"y", "e">> }

\* ---------------------------------------------------------------- write_query

max_retries == 3

ClarifyingPhrase == <<" Please ensure you use the correct column mapping for the query.">>

\* the loop runs once more than the budget
LoopConditionOffByOne(a) == a <= max_retries

LoopCondition(a) == a < max_retries

\* the phrase is appended once per failed attempt so far
ExtraInstructionAccumulates(a) == [i \in 1..a |-> ClarifyingPhrase[1]]

ExtraInstruction(a) == IF a > 0 THEN ClarifyingPhrase ELSE <<>>

PromptInput(question, a) == question \o ExtraInstruction(a)

IsValidQuery(q) == q # <<>> /\ Contains(Upper(q), SELECT)

\* the check after the loop only rejects an empty text
PostCheckOnlyEmpty(q) == q = <<>>

PostCheckFails(q) == q = <<>> \/ ~Contains(Upper(q), SELECT)

\* the dict write_query was called with
Arg == IF caller = "graph" THEN state ELSE test_state

\* lines 63-65, for a call by who
EnterWriteQuery(who) ==
    /\ caller' = who
    /\ attempt' = 0
    /\ sql_query' = <<>>
    /\ sent' = <<>>
    /\ outputs' = <<>>
    /\ wqlog' = <<>>
    /\ loopEnd' = "none"
    /\ returned' = {}
    /\ reads' = {}

\* one iteration of the while loop
LoopBody(o) ==
    /\ pc = "wq_loop"
    /\ LoopCondition(attempt)
    /\ reads' = {"question"}
    /\ sent' = Append(sent, PromptInput(Get(Arg, "question"), attempt))
    /\ outputs' = Append(outputs, o)
    /\ IF o[1] = "error"
       THEN /\ wqlog' = Append(wqlog, <<"error", attempt + 1>>)
            /\ attempt' = attempt + 1
            /\ UNCHANGED <<sql_query, pc, loopEnd>>
       ELSE /\ sql_query' = o[2]
            /\ IF IsValidQuery(o[2])
               THEN /\ wqlog' = Append(wqlog, <<"valid", attempt + 1>>)
                    /\ pc' = "wq_post"
                    /\ loopEnd' = "break"
                    /\ UNCHANGED attempt
               ELSE /\ wqlog' = Append(wqlog, <<"invalid", attempt + 1>>)
                    /\ attempt' = attempt + 1
                    /\ UNCHANGED <<pc, loopEnd>>
    /\ UNCHANGED <<runAsMain, connected, dbErrorPrinted, keyPrompted,
                   llmCreated, graphBuilt, exitCode, farewell, nAsked,
                   userPrompts, contAsked, state, test_state, caller,
                   returned, calls, seen, execFailed, gaPrompt, lastResponse, raised>>

WQAttempt == \E o \in AttemptOutcomes : LoopBody(o)

\* the while condition is false
WQLoopExit ==
    /\ pc = "wq_loop"
    /\ ~LoopCondition(attempt)
    /\ pc' = "wq_post"
    /\ loopEnd' = "exhausted"
    /\ UNCHANGED <<runAsMain, connected, dbErrorPrinted, keyPrompted,
                   llmCreated, graphBuilt, exitCode, farewell, nAsked,
                   userPrompts, contAsked, state, test_state, caller, attempt,
                   sql_query, sent, outputs, wqlog, returned, calls, seen,
                   reads, execFailed, gaPrompt, lastResponse, raised>>

\* the terminal loop catches the error and goes on to the continue-prompt
WQRaiseCaught ==
    /\ pc = "wq_post"
    /\ PostCheckFails(sql_query)
    /\ raised' = "ValueError"
    /\ pc' = IF caller = "graph" THEN "cont" ELSE "done"
    /\ exitCode' = IF caller = "graph" THEN exitCode ELSE 0
    /\ UNCHANGED <<runAsMain, connected, dbErrorPrinted, keyPrompted,
                   llmCreated, graphBuilt, farewell, nAsked, userPrompts,
                   contAsked, state, test_state, caller, attempt, sql_query,
                   sent, outputs, wqlog, loopEnd, returned, calls, seen,
                   reads, execFailed, gaPrompt, lastResponse>>

\* raise ValueError: nothing catches it, in graph.stream, ask_query, the
\* terminal loop or around the module-level call
WQRaise ==
    /\ pc = "wq_post"
    /\ PostCheckFails(sql_query)
    /\ raised' = "ValueError"
    /\ pc' = "crashed"
    /\ exitCode' = 1
    /\ UNCHANGED <<runAsMain, connected, dbErrorPrinted, keyPrompted,
                   llmCreated, graphBuilt, farewell, nAsked, userPrompts,
                   contAsked, state, test_state, caller, attempt, sql_query,
                   sent, outputs, wqlog, loopEnd, returned, calls, seen,
                   reads, execFailed, gaPrompt, lastResponse>>

\* return {"query": sql_query}; the runner merges it, or line 167 prints it
WQReturn ==
    /\ pc = "wq_post"
    /\ ~PostCheckFails(sql_query)
    /\ returned' = {<<"query", sql_query>>}
    /\ IF caller = "graph"
       THEN /\ state' = Merge(state, returned')
            /\ pc' = "exec"
            /\ UNCHANGED exitCode
       ELSE /\ pc' = "done"
            /\ exitCode' = 0
            /\ UNCHANGED state
    /\ UNCHANGED <<runAsMain, connected, dbErrorPrinted, keyPrompted,
                   llmCreated, graphBuilt, farewell, nAsked, userPrompts,
                   contAsked, test_state, caller, attempt, sql_query, sent,
                   outputs, wqlog, loopEnd, calls, seen, reads, execFailed, gaPrompt,
                   lastResponse, raised>>

\* ---------------------------------------------------------------- execute_query

FailedPrefix == <<"Query execution failed", ": ">>

FailedText(e) == FailedPrefix \o e

\* try: tool.invoke(state["query"]) ... except Exception: the stand-in text
ExecuteResult(d, o) ==
    IF "query" \notin Keys(d) THEN FailedText(<<"'query'">>)
    ELSE IF o[1] = "raise" THEN FailedText(o[2])
    ELSE o[2]

\* the except branch re-raises
ExecuteStepReraise(o) ==
    /\ pc = "exec"
    /\ calls' = Append(calls, "execute_query")
    /\ seen' = Append(seen, state)
    /\ reads' = {"query"}
    /\ execFailed' = ("query" \notin Keys(state) \/ o[1] = "raise")
    /\ IF execFailed'
       THEN /\ raised' = "ExecutionError"
            /\ pc' = "crashed"
            /\ exitCode' = 1
            /\ UNCHANGED state
       ELSE /\ state' = Merge(state, {<<"result", o[2]>>})
            /\ pc' = "answer"
            /\ UNCHANGED <<raised, exitCode>>
    /\ UNCHANGED <<runAsMain, connected, dbErrorPrinted, keyPrompted,
                   llmCreated, graphBuilt, farewell, nAsked, userPrompts,
                   contAsked, test_state, caller, attempt, sql_query, sent,
                   outputs, wqlog, loopEnd, returned, gaPrompt, lastResponse>>

ExecuteStep(o) ==
    /\ pc = "exec"
    /\ calls' = Append(calls, "execute_query")
    /\ seen' = Append(seen, state)
    /\ reads' = {"query"}
    /\ execFailed' = ("query" \notin Keys(state) \/ o[1] = "raise")
    /\ state' = Merge(state, {<<"result", ExecuteResult(state, o)>>})
    /\ pc' = "answer"
    /\ UNCHANGED <<runAsMain, connected, dbErrorPrinted, keyPrompted,
                   llmCreated, graphBuilt, exitCode, farewell, nAsked,
                   userPrompts, contAsked, test_state, caller, attempt,
                   sql_query, sent, outputs, wqlog, loopEnd, returned,
                   gaPrompt, lastResponse, raised>>

ExecuteQuery == \E o \in ToolOutcomes : ExecuteStep(o)

\* ---------------------------------------------------------------- generate_answer

AnswerPrompt(d) ==
    <<"Given the following user question, corresponding SQL query, and SQL result, answer the user question.\n\n">>
    \o <<"Question: ">> \o Get(d, "question")
    \o <<"\nSQL Query: ">> \o Get(d, "query")
    \o <<"\nSQL Result: ">> \o Get(d, "result")

AnswerStep(o) ==
    /\ pc = "answer"
    /\ calls' = Append(calls, "generate_answer")
    /\ seen' = Append(seen, state)
    /\ reads' = {"question", "query", "result"}
    /\ IF ~({"question", "query", "result"} \subseteq Keys(state))
       THEN /\ raised' = "KeyError"
            /\ pc' = "crashed"
            /\ exitCode' = 1
            /\ UNCHANGED <<state, gaPrompt>>
       ELSE /\ gaPrompt' = AnswerPrompt(state)
            /\ IF o[1] = "error"
               THEN /\ raised' = "ModelError"
                    /\ pc' = "crashed"
                    /\ exitCode' = 1
                    /\ UNCHANGED state
               ELSE /\ state' = Merge(state, {<<"answer", o[2]>>})
                    /\ pc' = "cont"
                    /\ UNCHANGED <<raised, exitCode>>
    /\ UNCHANGED <<runAsMain, connected, dbErrorPrinted, keyPrompted,
                   llmCreated, graphBuilt, farewell, nAsked, userPrompts,
                   contAsked, test_state, caller, attempt, sql_query, sent,
                   outputs, wqlog, loopEnd, returned, execFailed,
                   lastResponse>>

GenerateAnswer == \E o \in AnswerOutcomes : AnswerStep(o)

\* ---------------------------------------------------------------- start-up

Init ==
    /\ pc = "connect"
    /\ runAsMain \in BOOLEAN
    /\ connected = FALSE
    /\ dbErrorPrinted = FALSE
    /\ keyPrompted = FALSE
    /\ llmCreated = FALSE
    /\ graphBuilt = FALSE
    /\ exitCode = -1
    /\ farewell = FALSE
    /\ nAsked = 0
    /\ userPrompts = 0
    /\ state = {}
    /\ test_state = {}
    /\ caller = "none"
    /\ attempt = 0
    /\ sql_query = <<>>
    /\ sent = <<>>
    /\ outputs = <<>>
    /\ wqlog = <<>>
    /\ loopEnd = "none"
    /\ returned = {}
    /\ calls = <<>>
    /\ seen = <<>>
    /\ reads = {}
    /\ execFailed = FALSE
    /\ gaPrompt = <<>>
    /\ contAsked = FALSE
    /\ lastResponse = <<>>
    /\ raised = "none"

\* SQLDatabase.from_uri succeeded
ConnectOK ==
    /\ pc = "connect"
    /\ connected' = TRUE
    /\ pc' = "apikey"
    /\ UNCHANGED <<runAsMain, dbErrorPrinted, keyPrompted, llmCreated,
                   graphBuilt, exitCode, farewell, nAsked, userPrompts,
                   state, test_state, caller, attempt, sql_query, sent,
                   outputs, wqlog, loopEnd, returned, calls, seen, reads,
                   execFailed, gaPrompt, contAsked, lastResponse, raised>>

\* the error is printed but the script goes on
ConnectFailNoExit ==
    /\ pc = "connect"
    /\ dbErrorPrinted' = TRUE
    /\ pc' = "apikey"
    /\ UNCHANGED <<runAsMain, connected, keyPrompted, llmCreated, graphBuilt,
                   exitCode, farewell, nAsked, userPrompts, state, test_state,
                   caller, attempt, sql_query, sent, outputs, wqlog, loopEnd,
                   returned, calls, seen, reads, execFailed, gaPrompt,
                   contAsked, lastResponse, raised>>

\* except Exception: print the error; exit()
ConnectFail ==
    /\ pc = "connect"
    /\ dbErrorPrinted' = TRUE
    /\ pc' = "exited"
    /\ exitCode' = 0
    /\ UNCHANGED <<runAsMain, connected, keyPrompted, llmCreated, graphBuilt,
                   farewell, nAsked, userPrompts, state, test_state, caller,
                   attempt, sql_query, sent, outputs, wqlog, loopEnd,
                   returned, calls, seen, reads, execFailed, gaPrompt, contAsked,
                   lastResponse, raised>>

\* the key is asked for only when the environment does not hold it
ApiKey ==
    /\ pc = "apikey"
    /\ \E inEnv \in BOOLEAN : keyPrompted' = ~inEnv
    /\ pc' = "init_llm"
    /\ UNCHANGED <<runAsMain, connected, dbErrorPrinted, llmCreated,
                   graphBuilt, exitCode, farewell, nAsked, userPrompts,
                   state, test_state, caller, attempt, sql_query, sent,
                   outputs, wqlog, loopEnd, returned, calls, seen, reads,
                   execFailed, gaPrompt, contAsked, lastResponse, raised>>

InitModel ==
    /\ pc = "init_llm"
    /\ llmCreated' = TRUE
    /\ pc' = "build"
    /\ UNCHANGED <<runAsMain, connected, dbErrorPrinted, keyPrompted,
                   graphBuilt, exitCode, farewell, nAsked, userPrompts,
                   state, test_state, caller, attempt, sql_query, sent,
                   outputs, wqlog, loopEnd, returned, calls, seen, reads,
                   execFailed, gaPrompt, contAsked, lastResponse, raised>>

\* the prompt template, the three-stage sequence and its compilation
BuildGraph ==
    /\ pc = "build"
    /\ graphBuilt' = TRUE
    /\ pc' = "main"
    /\ UNCHANGED <<runAsMain, connected, dbErrorPrinted, keyPrompted,
                   llmCreated, exitCode, farewell, nAsked, userPrompts,
                   state, test_state, caller, attempt, sql_query, sent,
                   outputs, wqlog, loopEnd, returned, calls, seen, reads,
                   execFailed, gaPrompt, contAsked, lastResponse, raised>>

\* ---------------------------------------------------------------- terminal loop

\* if __name__ == "__main__": enter the loop, else fall through to line 165
MainEntry ==
    /\ pc = "main"
    /\ pc' = IF runAsMain THEN "ask" ELSE "test"
    /\ UNCHANGED <<runAsMain, connected, dbErrorPrinted, keyPrompted,
                   llmCreated, graphBuilt, exitCode, farewell, nAsked,
                   userPrompts, state, test_state, caller, attempt,
                   sql_query, sent, outputs, wqlog, loopEnd, returned, calls,
                   seen, reads, execFailed, gaPrompt, contAsked, lastResponse, raised>>

\* ask_query reads a question, makes the record and starts graph.stream,
\* whose first stage is write_query
AskStep(q) ==
    /\ pc = "ask"
    /\ nAsked < MaxQuestions
    /\ nAsked' = nAsked + 1
    /\ userPrompts' = userPrompts + 1
    /\ state' = {<<"question", q>>}
    /\ calls' = <<"write_query">>
    /\ seen' = <<state'>>
    /\ execFailed' = FALSE
    /\ gaPrompt' = <<>>
    /\ contAsked' = FALSE
    /\ lastResponse' = <<>>
    /\ EnterWriteQuery("graph")
    /\ pc' = "wq_loop"
    /\ UNCHANGED <<runAsMain, connected, dbErrorPrinted, keyPrompted,
                   llmCreated, graphBuilt, exitCode, farewell, test_state,
                   raised>>

AskQuery == \E q \in Questions : AskStep(q)

\* the answer is compared as typed
ContinueLoopExact(resp) == resp = Yes

ContinueLoop(resp) == Lower(Strip(resp)) = Yes

\* the continue-prompt and the test on its answer
ContinueStep(resp) ==
    /\ pc = "cont"
    /\ userPrompts' = userPrompts + 1
    /\ contAsked' = TRUE
    /\ lastResponse' = resp
    /\ IF ContinueLoop(resp)
       THEN /\ pc' = "ask"
            /\ UNCHANGED farewell
       ELSE /\ farewell' = TRUE
            /\ pc' = "test"
    /\ UNCHANGED <<runAsMain, connected, dbErrorPrinted, keyPrompted,
                   llmCreated, graphBuilt, exitCode, nAsked, state,
                   test_state, caller, attempt, sql_query, sent, outputs,
                   wqlog, loopEnd, returned, calls, seen, reads, execFailed, gaPrompt,
                   raised>>

Continue == \E resp \in Responses : ContinueStep(resp)

\* lines 165-166: the module-level call that follows the loop
TestCall ==
    /\ pc = "test"
    /\ test_state' = {<<"question", TestQuestion>>}
    /\ EnterWriteQuery("test")
    /\ pc' = "wq_loop"
    /\ UNCHANGED <<runAsMain, connected, dbErrorPrinted, keyPrompted,
                   llmCreated, graphBuilt, exitCode, farewell, nAsked,
                   userPrompts, state, calls, seen, execFailed, gaPrompt, contAsked,
                   lastResponse, raised>>

\* ---------------------------------------------------------------- specification

Next ==
    \/ ConnectOK
    \/ ConnectFail
    \/ ApiKey
    \/ InitModel
    \/ BuildGraph
    \/ MainEntry
    \/ AskQuery
    \/ WQAttempt
    \/ WQLoopExit
    \/ WQRaise
    \/ WQReturn
    \/ ExecuteQuery
    \/ GenerateAnswer
    \/ Continue
    \/ TestCall

Spec == Init /\ [][Next]_vars

\* the program is sequential: a step that needs no user input is taken
LiveSpec ==
    /\ Spec
    /\ WF_vars(WQAttempt)
    /\ WF_vars(WQLoopExit)
    /\ WF_vars(WQRaise)
    /\ WF_vars(WQReturn)

TypeOK ==
    /\ attempt \in 0..max_retries
    /\ exitCode \in {-1, 0, 1}
    /\ Keys(state) \subseteq Fields

\* ---------------------------------------------------------------- properties

Stages == <<"write_query", "execute_query", "generate_answer">>

InWriteQuery == pc \in {"wq_loop", "wq_post"}

\* the text holds the letters s,e,l,e,c,t in a row, in either case
HasSelectAnyCase(q) ==
    \E i \in 1..(Len(q) - 5) :
        /\ q[i] \in {"S", "s"}
        /\ q[i + 1] \in {"E", "e"}
        /\ q[i + 2] \in {"L", "l"}
        /\ q[i + 3] \in {"E", "e"}
        /\ q[i + 4] \in {"C", "c"}
        /\ q[i + 5] \in {"T", "t"}

\* attempt i of the current write_query call failed
FailedAttempt(i) == outputs[i][1] = "error" \/ ~HasSelectAnyCase(outputs[i][2])

C1_Safe ==
    /\ Len(outputs) <= 3
    /\ \A i \in 1..(Len(outputs) - 1) : FailedAttempt(i)
    /\ (raised = "ValueError" => Len(outputs) = 3 /\ returned = {})
    /\ (returned # {} =>
            /\ HasSelectAnyCase(Get(returned, "query"))
            /\ raised # "ValueError")
    /\ (caller # "none" /\ ~InWriteQuery =>
            returned # {} \/ raised = "ValueError")

\* C1: whatever the model does, a write_query call ends, and it ends either
\* by returning a query that contains SELECT in some case or by raising
\* after exactly 3 attempts; there is no 4th attempt, no attempt after a
\* valid output and no raise after fewer than 3 attempts.
C1_RetryBudget == []C1_Safe /\ (InWriteQuery ~> ~InWriteQuery)

C1_Witness ==
    /\ raised = "ValueError"
    /\ Len(outputs) = 3
    /\ outputs[1][1] = "output"
    /\ outputs[2][1] = "error"
    /\ outputs[3][1] = "output"

FailedMarker == <<"Query execution failed">>

\* C2: execute_query never raises: once it was invoked the record holds a
\* result and the next stage is generate_answer; when its try block failed
\* the result contains "Query execution failed", and that is the result
\* generate_answer is given.
C2_ExecuteNeverRaises ==
    Len(calls) >= 2 =>
        /\ raised \notin {"ExecutionError"}
        /\ (Len(calls) = 2 => pc = "answer")
        /\ "result" \in Keys(state)
        /\ (execFailed => Contains(Get(state, "result"), FailedMarker))
        /\ (Len(calls) = 3 =>
                /\ "result" \in Keys(seen[3])
                /\ Get(seen[3], "result") = Get(state, "result")
                /\ Contains(gaPrompt, Get(state, "result")))

C2_Witness ==
    /\ Len(calls) = 3
    /\ execFailed
    /\ pc = "cont"
    /\ Contains(Get(seen[3], "result"), FailedMarker)

\* C3: when write_query raises in the pipeline, execute_query and
\* generate_answer are not invoked for that question, the record holds no
\* result and no answer, the continue-prompt is not shown and the process
\* ends with the error.
C3_GenerationFailureAborts ==
    (raised = "ValueError" /\ caller = "graph") =>
        /\ calls = <<"write_query">>
        /\ Keys(state) = {"question"}
        /\ ~contAsked
        /\ pc = "crashed"
        /\ exitCode = 1

C3_Witness ==
    /\ raised = "ValueError"
    /\ caller = "graph"
    /\ loopEnd = "exhausted"
    /\ nAsked = 2

\* C4: once the farewell is printed, no pipeline stage runs, no model call
\* is made and the exit status stays 0.
C4_FarewellIsFinal ==
    farewell =>
        /\ ~InWriteQuery
        /\ caller # "test"
        /\ raised = "none"
        /\ exitCode \in {-1, 0}

\* the text is "yes" in some case, between whitespace
IsYesLike(r) ==
    \E i \in 1..(Len(r) - 2) :
        /\ r[i] \in {"y", "Y"}
        /\ r[i + 1] \in {"e", "E"}
        /\ r[i + 2] \in {"s", "S"}
        /\ \A k \in 1..Len(r) : (k < i \/ k > i + 2) => r[k] \in Whitespace

\* C5: after an answered question the loop takes another question exactly
\* when the response, stripped and lowercased, is "yes"; any other response
\* ends the loop with the farewell.
C5_ContinueIffYes ==
    [][pc = "cont" =>
          /\ pc' \in {"ask", "test"}
          /\ (pc' = "ask") <=> IsYesLike(lastResponse')
          /\ (pc' = "test") <=> (farewell' /\ ~IsYesLike(lastResponse'))]_vars

C5_Witness ==
    /\ pc = "ask"
    /\ contAsked
    /\ lastResponse = <<" ", "Y", "e", "s", "\n">>

IsPrefix(a, b) == Len(a) <= Len(b) /\ a = SubSeq(b, 1, Len(a))

\* C6: the stages run in the order write_query, execute_query,
\* generate_answer, each at most once per question and all three when none
\* raises; execute_query is given the question and the query write_query
\* returned, generate_answer is given those and the result of execute_query.
C6_FixedSequence ==
    /\ IsPrefix(calls, Stages)
    /\ Len(seen) = Len(calls)
    /\ (pc = "cont" => calls = Stages)
    /\ (Len(seen) >= 1 => Keys(seen[1]) = {"question"})
    /\ (Len(seen) >= 2 /\ caller = "graph" =>
            /\ returned # {}
            /\ seen[2] = seen[1] \cup {<<"query", Get(returned, "query")>>})
    /\ (Len(seen) >= 2 => Keys(seen[2]) = {"question", "query"})
    /\ (Len(seen) >= 3 =>
            /\ Keys(seen[3]) = {"question", "query", "result"}
            /\ seen[2] \subseteq seen[3])
    /\ (pc = "cont" =>
            /\ Keys(state) = Fields
            /\ seen[3] \subseteq state
            /\ gaPrompt = AnswerPrompt(seen[3]))

C6_Witness ==
    /\ pc = "cont"
    /\ calls = Stages
    /\ Get(seen[2], "query") = <<"x", "S", "e", "l", "e", "c", "t">>
    /\ Get(seen[3], "result") = <<"[(42,)]">>

\* C7: after a failed database connection the process has exited: no prompt
\* was shown, no model client was created and no stage ran.
C7_ConnectFailureExits ==
    dbErrorPrinted =>
        /\ pc = "exited"
        /\ ~connected
        /\ ~keyPrompted
        /\ userPrompts = 0
        /\ ~llmCreated
        /\ ~graphBuilt
        /\ calls = <<>>
        /\ sent = <<>>
        /\ caller = "none"

C7_Witness == dbErrorPrinted /\ pc = "exited" /\ exitCode = 0

StepFields == {"query", "result", "answer"}

\* the stage that takes the next step on the session record
ActingStage ==
    IF InWriteQuery /\ caller = "graph" THEN "write_query"
    ELSE IF pc = "exec" THEN "execute_query"
    ELSE IF pc = "answer" THEN "generate_answer"
    ELSE "none"

OwnField(stage) ==
    CASE stage = "write_query" -> "query"
      [] stage = "execute_query" -> "result"
      [] stage = "generate_answer" -> "answer"

EarlierFields(stage) ==
    CASE stage = "write_query" -> {}
      [] stage = "execute_query" -> {"query"}
      [] stage = "generate_answer" -> {"query", "result"}

\* a question starts with a record that holds the question only
C8_Fresh == (pc = "ask" /\ pc' # "ask") => Keys(state') = {"question"}

\* a stage's step keeps every field but its own, adds no other field, and
\* has added its own field when it hands over to the next stage
C8_Frame ==
    ActingStage # "none" =>
        /\ \A p \in state : p[1] # OwnField(ActingStage) => p \in state'
        /\ Keys(state') \subseteq Keys(state) \cup {OwnField(ActingStage)}
        /\ (pc' \in {"exec", "answer", "cont"} /\ pc' # pc =>
                OwnField(ActingStage) \in Keys(state'))

\* C8 as stated: the record starts with the question only, each stage adds
\* its own field and leaves the others unchanged, and no stage reads a
\* field that another stage owns.
C8_NoForeignReads ==
    [][/\ C8_Fresh
       /\ C8_Frame
       /\ (ActingStage # "none" =>
              reads' \cap (StepFields \ {OwnField(ActingStage)}) = {})]_vars

\* C8 amended: the record starts with the question only, each stage writes
\* its own field only and leaves every other field unchanged; a stage
\* reads the question and the fields of the stages before it (execute_query
\* reads query, generate_answer reads question, query and result), never
\* its own field or a later stage's.
C8_WritesOwnFieldOnly ==
    [][/\ C8_Fresh
       /\ C8_Frame
       /\ (ActingStage # "none" =>
              /\ reads' \subseteq {"question"} \cup EarlierFields(ActingStage)
              /\ (pc = "exec" => reads' = {"query"})
              /\ (pc = "answer" => reads' = {"question", "query", "result"}))]_vars

C8_Witness ==
    /\ pc = "cont"
    /\ Keys(state) = Fields
    /\ reads = {"question", "query", "result"}
    /\ seen[2] \subseteq state

\* C9: in a write_query call the first prompt carries the question as it
\* is, every later one the question followed by the clarifying phrase once,
\* and each attempt has printed its one line (error, invalid or valid)
\* before the next attempt starts.
C9_RetryPrompt ==
    caller # "none" =>
        /\ Len(sent) = Len(outputs)
        /\ Len(wqlog) = Len(outputs)
        /\ \A i \in 1..Len(sent) :
              sent[i] = IF i = 1
                        THEN Get(Arg, "question")
                        ELSE Get(Arg, "question") \o ClarifyingPhrase
        /\ \A i \in 1..Len(outputs) :
              wqlog[i] = IF outputs[i][1] = "error" THEN <<"error", i>>
                         ELSE IF FailedAttempt(i) THEN <<"invalid", i>>
                         ELSE <<"valid", i>>

C9_Witness ==
    /\ Len(sent) = 3
    /\ outputs[1][1] = "error"
    /\ outputs[2] = <<"output", <<"S", "E", "L", "E", "C">>>>
    /\ sent[2] = sent[3]
    /\ Len(sent[3]) = Len(sent[1]) + 1

\* C10: the query write_query returns is the output of its last attempt,
\* and the check after the loop raises exactly when the loop ran out of
\* attempts.
C10_ReturnsLastOutput ==
    /\ (returned # {} =>
            /\ Len(outputs) >= 1
            /\ outputs[Len(outputs)] = <<"output", Get(returned, "query")>>)
    /\ (raised = "ValueError" => loopEnd = "exhausted")
    /\ (loopEnd = "exhausted" /\ pc # "wq_post" =>
            raised = "ValueError" /\ returned = {})
    /\ (loopEnd = "break" /\ pc # "wq_post" =>
            raised # "ValueError" /\ returned # {})

C10_Witness ==
    /\ raised = "ValueError"
    /\ outputs[1] = <<"output", <<"S", "E", "L", "E", "C">>>>
    /\ outputs[2][1] = "error"
    /\ outputs[3][1] = "error"
    /\ sql_query = <<"S", "E", "L", "E", "C">>

====
